---- MODULE Spec2Model ----
(***************************************************************************)
(* Sandboxed code execution subsystem of utils-bot-plus:                   *)
(*   src/utils/sandboxing.py       dispatcher, primary (container) executor*)
(*   src/utils/fallback_sandbox.py fallback (subprocess) executor          *)
(*   src/utils/image_manager.py    image manager                           *)
(*                                                                         *)
(* Text is a sequence of symbols.  "a" is an ordinary character, " " a     *)
(* blank, "\n" the newline, "1" a digit; every other symbol is a token     *)
(* that stands for a fixed string of the source (a sentinel such as        *)
(* "__SANDBOX_STDOUT__", the tail of the truncation marker, a traceback    *)
(* header) and counts as one character.  The parsers compare whole lines   *)
(* with the sentinels, so a line is a sentinel line exactly when it is     *)
(* the one-symbol sequence of that token.                                  *)
(***************************************************************************)
EXTENDS Integers, Sequences, FiniteSets, TLC

----------------------------------------------------------------------------
(* Bounds of the model *)

\* longest text a user program writes to its captured stdout
MaxOut == 3
\* longest text a user program writes to its captured stderr
MaxErr == 3
\* most user files in one request
MaxFiles == 1
\* ticks of the clock (half hours) the image manager is followed for
MaxClock == 4
\* most lines of a log handed to a parser
MaxLines == 3

----------------------------------------------------------------------------
(* Text helpers: Python str operations used by the wrappers and parsers *)

NL == "\n"

Whitespace == {" ", NL}

\* all texts over alphabet A of length at most n
TextsUpTo(A, n) == UNION {[1..k -> A] : k \in 0..n}

\* s[:n]
Take(s, n) == SubSeq(s, 1, IF Len(s) < n THEN Len(s) ELSE n)

\* position of the first newline of s, 0 when there is none
FirstNL(s) ==
    IF \E i \in 1..Len(s) : s[i] = NL
    THEN CHOOSE i \in 1..Len(s) : s[i] = NL /\ \A j \in 1..(i-1) : s[j] # NL
    ELSE 0

RECURSIVE split(_)
\* s.split("\n"): k newlines give k+1 lines
split(s) ==
    LET i == FirstNL(s) IN
    IF i = 0 THEN <<s>>
    ELSE <<SubSeq(s, 1, i-1)>> \o split(SubSeq(s, i+1, Len(s)))

RECURSIVE rstrip(_)
\* s.rstrip(): drop trailing whitespace
rstrip(s) ==
    IF s # <<>> /\ s[Len(s)] \in Whitespace THEN rstrip(SubSeq(s, 1, Len(s)-1))
    ELSE s

\* truthiness of s.strip()
strip_nonempty(s) == \E i \in 1..Len(s) : s[i] \notin Whitespace

\* what the Python statement print(s) writes
print_line(s) == s \o <<NL>>

\* s.replace(tok, "")
remove_all(s, tok) == SelectSeq(s, LAMBDA c : c # tok)

\* float(s) succeeds: surrounding whitespace is ignored, digits are required
float_ok(s) ==
    LET core == SelectSeq(s, LAMBDA c : c \notin Whitespace) IN
    /\ core # <<>>
    /\ \A i \in 1..Len(core) : core[i] = "1"
    /\ \A i, j \in 1..Len(s) : (i < j /\ s[i] = "1" /\ s[j] = "1")
                                  => \A k \in i..j : s[k] = "1"

----------------------------------------------------------------------------
(* Shared types: SandboxConfig, ExecutionResult *)

\* SandboxConfig defaults
DefaultTimeout == 10
DefaultMaxOutputSize == 8192
DefaultMaxFileSize == 1048576

\* SandboxConfig(): the fields the executors read
SandboxConfig ==
    [timeout |-> DefaultTimeout,
     max_output_size |-> DefaultMaxOutputSize,
     max_file_size |-> DefaultMaxFileSize]

\* execution_time values: the dataclass default 0.0, the time the wrapped
\* program measured and reported, config.timeout, or the wall-clock time
\* the primary executor measures around the whole run
TimeDefault == [kind |-> "default", val |-> 0]
TimeReported == [kind |-> "reported", val |-> 1]
TimeConfigTimeout(config) == [kind |-> "config_timeout", val |-> config.timeout]
TimeWallClock == [kind |-> "wall_clock", val |-> 0]

\* ExecutionResult(success, output, error, execution_time, exit_code)
ExecutionResult(success, output, error, execution_time, exit_code) ==
    [success |-> success, output |-> output, error |-> error,
     execution_time |-> execution_time, exit_code |-> exit_code,
     files_created |-> {}]

----------------------------------------------------------------------------
(* Sentinel protocol *)

SANDBOX_STDOUT == "__SANDBOX_STDOUT__"
SANDBOX_STDERR == "__SANDBOX_STDERR__"
SANDBOX_TIME == "__SANDBOX_TIME__"
SANDBOX_SUCCESS == "__SANDBOX_SUCCESS__"
SANDBOX_ERROR == "__SANDBOX_ERROR__"
SANDBOX_TIMEOUT == "__SANDBOX_TIMEOUT__"

FALLBACK_STDOUT == "__FALLBACK_STDOUT__"
FALLBACK_STDERR == "__FALLBACK_STDERR__"
FALLBACK_TIME == "__FALLBACK_TIME__"
FALLBACK_SUCCESS == "__FALLBACK_SUCCESS__"
FALLBACK_ERROR == "__FALLBACK_ERROR__"

\* "\n... (output truncated)"
TruncationMarker == <<NL, "... (output truncated)">>

\* the substring the primary wrapper looks for in str(e).lower()
TIMED_OUT == "timed out"

\* traceback.format_exc() for an exception whose str() is msg
format_exc(msg) ==
    <<"Traceback (most recent call last):", NL, "Error: ">> \o msg \o <<NL>>

\* str(e) of the TimeoutError the primary wrapper's alarm handler raises
px_alarm_message == <<"Code execution ", TIMED_OUT, " after N seconds">>

\* str(e) of the TimeoutError the fallback wrapper's alarm handler raises
fx_alarm_message == <<"Execution ", TIMED_OUT>>

(* A user program is described by what it does when it runs inside the     *)
(* wrapper: out and err are what it writes to the captured streams, end is *)
(* how it ends, msg is str(e) of the exception it raises (end = "raise"),  *)
(* enhanced says whether its source contains one of the library            *)
(* indicators.                                                             *)
(*   "normal"  runs to completion                                          *)
(*   "raise"   raises an Exception subclass                                *)
(*   "alarm"   is interrupted by the SIGALRM handler's TimeoutError        *)
(*   "exit"    leaves by SystemExit, which except Exception does not catch *)
(*   "hang"    is still running when the outer wait expires                *)
(*   "import"  its first statement imports the module named msg[1], then   *)
(*             it runs to completion                                       *)
Ends == {"normal", "raise", "alarm", "exit", "hang", "import"}

\* config.blocked_modules (three of its names) and a module not on it
BlockedModules == {"os", "sys", "urllib.request"}
AllowedModule == "math"

\* the words of the two ImportError messages that name the restriction
IS_BLOCKED == "is blocked"
IS_RESTRICTED == "restricted"

\* ImportBlock.__call__(name): str(e) of the ImportError it raises
import_block(name) == <<"Module ", name, " ", IS_BLOCKED, " for security reasons">>

\* restricted_import(name): str(e) of the ImportError it raises
restricted_import(name) == <<"Import of ", name, " is ", IS_RESTRICTED>>

\* the program's import statement raises under the installed hook
import_raises(code) == code.end = "import" /\ code.msg[1] \in BlockedModules

\* the program reaches the end of the with block
completes(code) ==
    code.end = "normal" \/ (code.end = "import" /\ code.msg[1] \notin BlockedModules)

\* stdout_content after "Limit output size"
limit_output(stdout_content, config) ==
    IF Len(stdout_content) > config.max_output_size
    THEN Take(stdout_content, config.max_output_size) \o TruncationMarker
    ELSE stdout_content

\* The run of the program _wrap_code_with_security generates: what it writes
\* to the real stdout, its exit code, and whether it ends at all.
wrap_code_with_security(code, config) ==
    CASE completes(code) ->
           [finishes |-> TRUE, exit_code |-> 0,
            logs |-> print_line(<<SANDBOX_STDOUT>>)
                     \o print_line(limit_output(code.out, config))
                     \o print_line(<<SANDBOX_STDERR>>)
                     \o print_line(code.err)
                     \o print_line(<<SANDBOX_TIME, "1">>)
                     \o print_line(<<SANDBOX_SUCCESS>>)]
      [] code.end \in {"raise", "alarm"} \/ import_raises(code) ->
           LET e == IF code.end = "alarm" THEN px_alarm_message
                    ELSE IF code.end = "import" THEN import_block(code.msg[1])
                    ELSE code.msg IN
           [finishes |-> TRUE, exit_code |-> 0,
            logs |-> print_line(<<SANDBOX_STDOUT>>)
                     \o print_line(<<>>)
                     \o print_line(<<SANDBOX_STDERR>>)
                     \o print_line(format_exc(e))
                     \o (IF \E i \in 1..Len(e) : e[i] = TIMED_OUT
                         THEN print_line(<<SANDBOX_TIMEOUT>>) ELSE <<>>)
                     \o print_line(<<SANDBOX_ERROR>>)]
      [] code.end = "exit" ->
           [finishes |-> TRUE, exit_code |-> 1, logs |-> <<>>]
      [] code.end = "hang" ->
           [finishes |-> FALSE, exit_code |-> 0, logs |-> <<>>]

\* The run of the program _wrap_code_for_subprocess generates.
wrap_code_for_subprocess(code, config) ==
    CASE completes(code) ->
           [finishes |-> TRUE, exit_code |-> 0,
            logs |-> print_line(<<FALLBACK_STDOUT>>)
                     \o print_line(limit_output(code.out, config))
                     \o print_line(<<FALLBACK_STDERR>>)
                     \o print_line(code.err)
                     \o print_line(<<FALLBACK_TIME, "1">>)
                     \o print_line(<<FALLBACK_SUCCESS>>)]
      [] code.end \in {"raise", "alarm"} \/ import_raises(code) ->
           LET e == IF code.end = "alarm" THEN fx_alarm_message
                    ELSE IF code.end = "import" THEN restricted_import(code.msg[1])
                    ELSE code.msg IN
           [finishes |-> TRUE, exit_code |-> 0,
            logs |-> print_line(<<FALLBACK_STDOUT>>)
                     \o print_line(<<>>)
                     \o print_line(<<FALLBACK_STDERR>>)
                     \o print_line(format_exc(e))
                     \o print_line(<<FALLBACK_ERROR>>)]
      [] code.end = "exit" ->
           [finishes |-> TRUE, exit_code |-> 1, logs |-> <<>>]
      [] code.end = "hang" ->
           [finishes |-> FALSE, exit_code |-> 0, logs |-> <<>>]

----------------------------------------------------------------------------
(* Output parsers *)

\* logs[:1000] of the parse-failure result
RawLogKeep == 1000

\* the parser's local variables before the loop over the lines
px_locals ==
    [stdout |-> <<>>, stderr |-> <<>>, execution_time |-> TimeDefault,
     success |-> FALSE, is_timeout |-> FALSE, current_section |-> "none",
     raised |-> FALSE]

\* variant: a timeout line only clears success, as an error line does
px_line_timeout_not_kept(line, st) ==
    IF line = <<SANDBOX_STDOUT>> THEN [st EXCEPT !.current_section = "stdout"]
    ELSE IF line = <<SANDBOX_STDERR>> THEN [st EXCEPT !.current_section = "stderr"]
    ELSE IF line # <<>> /\ line[1] = SANDBOX_TIME THEN
        IF float_ok(remove_all(line, SANDBOX_TIME))
        THEN [st EXCEPT !.execution_time = TimeReported]
        ELSE [st EXCEPT !.raised = TRUE]
    ELSE IF line = <<SANDBOX_SUCCESS>> THEN [st EXCEPT !.success = TRUE]
    ELSE IF line = <<SANDBOX_ERROR>> THEN [st EXCEPT !.success = FALSE]
    ELSE IF line = <<SANDBOX_TIMEOUT>> THEN [st EXCEPT !.success = FALSE]
    ELSE IF st.current_section = "stdout"
        THEN [st EXCEPT !.stdout = @ \o line \o <<NL>>]
    ELSE IF st.current_section = "stderr"
        THEN [st EXCEPT !.stderr = @ \o line \o <<NL>>]
    ELSE st

\* one iteration of the loop of _parse_container_output
px_line(line, st) ==
    IF line = <<SANDBOX_STDOUT>> THEN [st EXCEPT !.current_section = "stdout"]
    ELSE IF line = <<SANDBOX_STDERR>> THEN [st EXCEPT !.current_section = "stderr"]
    ELSE IF line # <<>> /\ line[1] = SANDBOX_TIME THEN
        IF float_ok(remove_all(line, SANDBOX_TIME))
        THEN [st EXCEPT !.execution_time = TimeReported]
        ELSE [st EXCEPT !.raised = TRUE]
    ELSE IF line = <<SANDBOX_SUCCESS>> THEN [st EXCEPT !.success = TRUE]
    ELSE IF line = <<SANDBOX_ERROR>> THEN [st EXCEPT !.success = FALSE]
    ELSE IF line = <<SANDBOX_TIMEOUT>>
        THEN [st EXCEPT !.is_timeout = TRUE, !.success = FALSE]
    ELSE IF st.current_section = "stdout"
        THEN [st EXCEPT !.stdout = @ \o line \o <<NL>>]
    ELSE IF st.current_section = "stderr"
        THEN [st EXCEPT !.stderr = @ \o line \o <<NL>>]
    ELSE st

RECURSIVE px_loop(_, _)
\* for line in lines, left at the first exception
px_loop(lines, st) ==
    IF lines = <<>> \/ st.raised THEN st
    ELSE px_loop(Tail(lines), px_line(Head(lines), st))

\* SecureSandbox._parse_container_output(logs, exit_code), self.config = config
parse_container_output(logs, exit_code, config) ==
    LET st == px_loop(split(logs), px_locals) IN
    IF st.raised
    THEN ExecutionResult(FALSE, Take(logs, RawLogKeep),
                         <<"Failed to parse output: ">>, TimeDefault, 0)
    ELSE IF st.is_timeout
    THEN ExecutionResult(FALSE, rstrip(st.stdout),
                         <<"Code execution ", TIMED_OUT, " after N seconds">>,
                         TimeConfigTimeout(config), exit_code)
    ELSE ExecutionResult(st.success /\ exit_code = 0, rstrip(st.stdout),
                         IF strip_nonempty(st.stderr) THEN rstrip(st.stderr)
                                                      ELSE <<>>,
                         st.execution_time, exit_code)

\* the fallback parser's local variables before the loop; error starts as
\* the child's own stderr
fx_locals(stderr) ==
    [output |-> <<>>, error |-> stderr, execution_time |-> TimeDefault,
     success |-> FALSE, current_section |-> "none", raised |-> FALSE]

\* one iteration of the loop of _parse_subprocess_output
fx_line(line, st) ==
    IF line = <<FALLBACK_STDOUT>> THEN [st EXCEPT !.current_section = "stdout"]
    ELSE IF line = <<FALLBACK_STDERR>> THEN [st EXCEPT !.current_section = "stderr"]
    ELSE IF line # <<>> /\ line[1] = FALLBACK_TIME THEN
        IF float_ok(remove_all(line, FALLBACK_TIME))
        THEN [st EXCEPT !.execution_time = TimeReported]
        ELSE [st EXCEPT !.raised = TRUE]
    ELSE IF line = <<FALLBACK_SUCCESS>> THEN [st EXCEPT !.success = TRUE]
    ELSE IF line = <<FALLBACK_ERROR>> THEN [st EXCEPT !.success = FALSE]
    ELSE IF st.current_section = "stdout"
        THEN [st EXCEPT !.output = @ \o line \o <<NL>>]
    ELSE IF st.current_section = "stderr" /\ st.error = <<>>
        THEN [st EXCEPT !.error = @ \o line \o <<NL>>]
    ELSE st

RECURSIVE fx_loop(_, _)
\* for line in lines, left at the first exception
fx_loop(lines, st) ==
    IF lines = <<>> \/ st.raised THEN st
    ELSE fx_loop(Tail(lines), fx_line(Head(lines), st))

\* FallbackSandbox._parse_subprocess_output(stdout, stderr, exit_code)
parse_subprocess_output(stdout, stderr, exit_code) ==
    LET st == fx_loop(split(stdout), fx_locals(stderr)) IN
    IF st.raised
    THEN ExecutionResult(FALSE, Take(stdout, RawLogKeep),
                         <<"Failed to parse output: ">>, TimeDefault, 0)
    ELSE ExecutionResult(st.success /\ exit_code = 0, rstrip(st.output),
                         IF strip_nonempty(st.error) THEN rstrip(st.error)
                                                     ELSE <<>>,
                         st.execution_time, exit_code)

----------------------------------------------------------------------------
(* File names: os.path.normpath and _is_safe_filename.  A file name is a   *)
(* sequence of characters; "/" is the separator.                           *)

RECURSIVE split_on(_, _)
\* s.split(sep) for a one-character separator
split_on(s, sep) ==
    IF \E i \in 1..Len(s) : s[i] = sep
    THEN LET i == CHOOSE i \in 1..Len(s) :
                     s[i] = sep /\ \A j \in 1..(i-1) : s[j] # sep
         IN <<SubSeq(s, 1, i-1)>> \o split_on(SubSeq(s, i+1, Len(s)), sep)
    ELSE <<s>>

RECURSIVE join(_, _)
\* sep.join(comps)
join(comps, sep) ==
    IF comps = <<>> THEN <<>>
    ELSE IF Len(comps) = 1 THEN comps[1]
    ELSE comps[1] \o <<sep>> \o join(Tail(comps), sep)

\* path.startswith(prefix)
startswith(path, prefix) ==
    Len(path) >= Len(prefix) /\ SubSeq(path, 1, Len(prefix)) = prefix

DotDot == <<".", ".">>

RECURSIVE norm_comps(_, _, _)
\* the loop of posixpath.normpath over the components
norm_comps(comps, new_comps, initial_slashes) ==
    IF comps = <<>> THEN new_comps
    ELSE LET comp == Head(comps) IN
         IF comp = <<>> \/ comp = <<".">>
         THEN norm_comps(Tail(comps), new_comps, initial_slashes)
         ELSE IF \/ comp # DotDot
                 \/ (initial_slashes = 0 /\ new_comps = <<>>)
                 \/ (new_comps # <<>> /\ new_comps[Len(new_comps)] = DotDot)
         THEN norm_comps(Tail(comps), Append(new_comps, comp), initial_slashes)
         ELSE IF new_comps # <<>>
         THEN norm_comps(Tail(comps), SubSeq(new_comps, 1, Len(new_comps) - 1),
                         initial_slashes)
         ELSE norm_comps(Tail(comps), new_comps, initial_slashes)

\* os.path.normpath(path) on POSIX
normpath(path) ==
    IF path = <<>> THEN <<".">>
    ELSE LET initial_slashes ==
                 IF ~ startswith(path, <<"/">>) THEN 0
                 ELSE IF startswith(path, <<"/", "/">>)
                         /\ ~ startswith(path, <<"/", "/", "/">>) THEN 2
                 ELSE 1
             body == join(norm_comps(split_on(path, "/"), <<>>, initial_slashes), "/")
             full == [i \in 1..initial_slashes |-> "/"] \o body
         IN IF full = <<>> THEN <<".">> ELSE full

\* dangerous_chars of _is_safe_filename; the model's alphabet has "<" and ":"
dangerous_chars == {"<", ">", ":", "\"", "|", "?", "*"}

\* SecureSandbox._is_safe_filename / FallbackSandbox._is_safe_filename
is_safe_filename(filename) ==
    LET normalized == normpath(filename) IN
    IF startswith(normalized, DotDot) \/ startswith(normalized, <<"/">>)
    THEN FALSE
    ELSE IF \E i \in 1..Len(filename) : filename[i] \in dangerous_chars
    THEN FALSE
    ELSE TRUE

\* FallbackSandbox._is_safe_filename: the same test, written a second time
fx_is_safe_filename(filename) ==
    LET normalized == normpath(filename) IN
    IF startswith(normalized, DotDot) \/ startswith(normalized, <<"/">>)
    THEN FALSE
    ELSE IF \E i \in 1..Len(filename) : filename[i] \in dangerous_chars
    THEN FALSE
    ELSE TRUE

----------------------------------------------------------------------------
(* Workspace preparation *)

\* reserved names; each is one token of a file name
MAIN_PY == <<"main.py">>
INPUT_TXT == <<"input.txt">>
DOCKERFILE == <<"Dockerfile">>
REQUIREMENTS_TXT == <<"requirements.txt">>

\* the workspace after path.write_*(...): a file of that name is replaced
write_file(ws, name, kind, size) ==
    {f \in ws : f.name # name} \cup {[name |-> name, kind |-> kind, size |-> size]}

\* main.py and input.txt as both executors write them
write_program(stdin_data) ==
    LET ws == write_file({}, MAIN_PY, "wrapped", 1) IN
    IF stdin_data # <<>> THEN write_file(ws, INPUT_TXT, "stdin", Len(stdin_data))
    ELSE ws

RECURSIVE px_add_files(_, _, _)
\* the loop "for filename, content in files.items()" of
\* SecureSandbox._prepare_sandbox_environment; raised is the ValueError
px_add_files(files, ws, config) ==
    IF files = <<>> THEN [raised |-> FALSE, ws |-> ws]
    ELSE LET f == Head(files) IN
         IF is_safe_filename(f.name)
         THEN IF f.size > config.max_file_size
              THEN [raised |-> TRUE, ws |-> ws]
              ELSE px_add_files(Tail(files),
                                write_file(ws, f.name, "user", f.size), config)
         ELSE px_add_files(Tail(files), ws, config)

\* SecureSandbox._prepare_sandbox_environment
prepare_sandbox_environment(files, stdin_data, config) ==
    px_add_files(files, write_program(stdin_data), config)

RECURSIVE fx_add_files(_, _)
\* the loop "for filename, content in files.items()" of
\* FallbackSandbox.execute_code
fx_add_files(files, ws) ==
    IF files = <<>> THEN [raised |-> FALSE, ws |-> ws]
    ELSE LET f == Head(files) IN
         IF fx_is_safe_filename(f.name)
         THEN fx_add_files(Tail(files), write_file(ws, f.name, "user", f.size))
         ELSE fx_add_files(Tail(files), ws)

\* the workspace part of FallbackSandbox.execute_code
fx_prepare_workspace(files, stdin_data) ==
    fx_add_files(files, write_program(stdin_data))

\* SecureSandbox._get_created_files: names of the workspace's files other
\* than the reserved ones, no larger than max_file_size
get_created_files(ws, config) ==
    {f.name : f \in {g \in ws :
        /\ g.name \notin {MAIN_PY, DOCKERFILE, REQUIREMENTS_TXT, INPUT_TXT}
        /\ g.size <= config.max_file_size}}

\* FallbackSandbox._get_created_files
fx_get_created_files(ws, config) ==
    {f.name : f \in {g \in ws : /\ g.name \notin {MAIN_PY, INPUT_TXT}
                                /\ g.size <= config.max_file_size}}

----------------------------------------------------------------------------
(* Inputs of the model *)

\* a config a caller passes: every cap differs from the default
CallerConfig == [timeout |-> 2, max_output_size |-> 2, max_file_size |-> 1]

\* "no config passed" (config=None)
NoConfig == [timeout |-> 0, max_output_size |-> 0, max_file_size |-> 0]

\* file names callers supply
FileNames ==
    { <<"a">>,                      \* plain
      <<".", ".", "/", "a">>,       \* ../a
      <<"/", "a">>,                 \* /a
      <<"a", "<">>,                 \* a<
      <<"a", ".", ".", "b">> }      \* a..b

\* user files: every name with a content that fits every cap, and the plain
\* name with a content longer than the default cap
UserFiles ==
    {[name |-> n, size |-> 1] : n \in FileNames}
    \cup {[name |-> <<"a">>, size |-> DefaultMaxFileSize + 1]}

\* files mappings (a dict keeps insertion order and has distinct keys)
FileMaps ==
    {fs \in UNION {[1..k -> UserFiles] : k \in 0..MaxFiles} :
        \A i, j \in 1..Len(fs) : i # j => fs[i].name # fs[j].name}

\* user programs of the execution model
Codes ==
    {[out |-> <<"a", NL>>, err |-> <<>>, end |-> "normal", msg |-> <<>>,
      enhanced |-> h] : h \in BOOLEAN}
    \cup
    {[out |-> <<SANDBOX_TIME, NL, FALLBACK_TIME>>, err |-> <<>>,
      end |-> "normal", msg |-> <<>>, enhanced |-> FALSE]}
    \cup
    {[out |-> <<>>, err |-> <<>>, end |-> e, msg |-> <<"a">>, enhanced |-> FALSE] :
        e \in {"raise", "alarm", "exit", "hang"}}

StdinTexts == {<<>>, <<"a">>}

Languages == {"python", "python-enhanced"}

\* f"utils-bot-sandbox-{language}:latest"
image_tag_of(language) == <<"utils-bot-sandbox-", language, ":latest">>

NoTag == <<>>

\* for _ in range(30)
PollLimit == 30

\* self.cleanup_interval = timedelta(hours=1), in ticks of half an hour
CleanupInterval == 2

\* the images the runtime lists for filters={"label": "utils-bot-sandbox"}:
\* one tagged as the python profile's image, one that carries the enhanced
\* profile's tag besides an old one, one with an old tag only
LabelledImages ==
    {[id |-> "img_python", tags |-> {image_tag_of("python")}],
     [id |-> "img_mixed", tags |-> {image_tag_of("python-enhanced"), <<"old">>}],
     [id |-> "img_old", tags |-> {<<"old">>}]}

----------------------------------------------------------------------------
(* State *)

VARIABLES
    client,          \* sandbox.client is set (the global SecureSandbox)
    im_client,       \* image_manager.client is set
    built_images,    \* image_manager.built_images: the languages with an entry
    build_status,    \* image_manager.build_status: language -> is building
    building_lock,   \* holder of image_manager.building_lock, "free" if none
    bg,              \* the task running _build_base_images
    labelled,        \* runtime images carrying the label "utils-bot-sandbox"
    now,             \* datetime.now(), in ticks
    last_cleanup,    \* image_manager.last_cleanup, in ticks
    cleanup_call,    \* the last cleanup_old_images call and what it did
    pc,              \* position of the execute_code_safely call in flight
    req,             \* its arguments
    backend,         \* the executor the dispatcher handed the call to
    config,          \* self.config of the executor that runs the call
    ws_exists,       \* the temp_dir of the call exists on disk
    ws,              \* files in it
    lang,            \* get_image_for_language: the normalized language
    attempt,         \* which of the two get_image_for_language calls
    polls,           \* iterations of its waiting loop so far
    image_tag,       \* image_tag of _run_in_container
    container,       \* "none", "running", "removed"
    child,           \* "none", "running", "exited", "reaped"
    launched,        \* what the call launched so far: containers, children
    result,          \* the ExecutionResult being built
    returned,        \* the results the call returned to its caller
    raised,          \* an exception left execute_code_safely
    at_call,         \* what the dispatcher saw when the call came in
    cleanup_warning, \* "Failed to cleanup temp directory" was logged
    remove_failed,   \* container.remove(force=True) raised, which was ignored
    report           \* the log lines and exit code handed to a parser

clvars == <<labelled, now, last_cleanup, cleanup_call>>
imvars == <<im_client, built_images, build_status, building_lock, bg,
            clvars>>
exvars == <<pc, req, backend, config, ws_exists, ws, lang, attempt, polls,
            image_tag, container, child, launched, result, returned, raised,
            at_call, cleanup_warning, remove_failed>>
vars == <<client, imvars, exvars, report>>

NoRequest == [code |-> [out |-> <<>>, err |-> <<>>, end |-> "normal",
                        msg |-> <<>>, enhanced |-> FALSE],
              files |-> <<>>, stdin_data |-> <<>>, config |-> NoConfig]

NoResult == ExecutionResult(FALSE, <<>>, <<"(none)">>, TimeDefault, 0)

NoSnapshot == [client |-> FALSE, images_ready |-> FALSE]

BgIdle == [queue |-> <<>>, state |-> "idle"]

\* nothing was handed to a parser
NoReport == [lines |-> <<>>, exit_code |-> 0]

\* no cleanup_old_images call was made yet
NoCleanup == [force |-> FALSE, outcome |-> "none", removed |-> {},
              failed |-> {}, raised |-> FALSE]

\* the positions at which the call is suspended in an await (or no call is
\* in flight) and other tasks of the event loop run
YieldPcs == {"idle", "px_poll", "px_lock_wait", "px_build",
             "px_launch", "px_wait", "fx_spawn", "fx_wait"}

Init ==
    /\ client \in BOOLEAN
    /\ im_client = FALSE
    /\ built_images = {}
    /\ build_status = [l \in Languages |-> FALSE]
    /\ building_lock = "free"
    /\ bg = BgIdle
    /\ labelled = LabelledImages
    /\ now = 0
    /\ last_cleanup = 0
    /\ cleanup_call = NoCleanup
    /\ pc = "idle"
    /\ req = NoRequest
    /\ backend = "none"
    /\ config = SandboxConfig
    /\ ws_exists = FALSE
    /\ ws = {}
    /\ lang = "python"
    /\ attempt = 0
    /\ polls = 0
    /\ image_tag = NoTag
    /\ container = "none"
    /\ child = "none"
    /\ launched = [containers |-> 0, children |-> 0]
    /\ result = NoResult
    /\ returned = <<>>
    /\ raised = FALSE
    /\ at_call = NoSnapshot
    /\ cleanup_warning = FALSE
    /\ remove_failed = FALSE
    /\ report = NoReport

----------------------------------------------------------------------------
(* Image manager *)

\* variant: no lock is held during the build and build_status is not looked at
build_language_image_unserialised(language, holder, io_ok) ==
    IF ~ io_ok
    THEN [status |-> [build_status EXCEPT ![language] = FALSE],
          images |-> built_images, lock |-> "free", next |-> "return"]
    ELSE IF im_client
    THEN [status |-> [build_status EXCEPT ![language] = TRUE],
          images |-> built_images, lock |-> "free", next |-> "await_build"]
    ELSE [status |-> [build_status EXCEPT ![language] = FALSE],
          images |-> built_images \cup {language},
          lock |-> "free", next |-> "return"]

\* _build_language_image from "async with self.building_lock" (the lock is
\* free and is taken by holder) to the await of the build, or to the end
\* when nothing is awaited.  io_ok: the build context could be written.
build_language_image(language, holder, io_ok) ==
    IF build_status[language]
    THEN [status |-> build_status, images |-> built_images,
          lock |-> "free", next |-> "return"]
    ELSE IF ~ io_ok
    THEN [status |-> [build_status EXCEPT ![language] = FALSE],
          images |-> built_images, lock |-> "free", next |-> "return"]
    ELSE IF im_client
    THEN [status |-> [build_status EXCEPT ![language] = TRUE],
          images |-> built_images, lock |-> holder, next |-> "await_build"]
    ELSE [status |-> [build_status EXCEPT ![language] = FALSE],
          images |-> built_images \cup {language},
          lock |-> "free", next |-> "return"]

\* _build_language_image after the awaited client.images.build: ok says
\* whether it returned or raised
build_language_image_done(language, ok) ==
    [status |-> [build_status EXCEPT ![language] = FALSE],
     images |-> IF ok THEN built_images \cup {language} ELSE built_images,
     lock |-> "free"]

\* self.built_images.get(language) as an image tag
built_tag(images, language) ==
    IF language \in images THEN image_tag_of(language) ELSE NoTag

\* the calls of client.images.build for language that were started and have
\* not ended: the one awaited by the _build_base_images task and the one
\* awaited by the get_image_for_language of the call in flight
builds_in_flight(language) ==
    (IF bg.state = "building" /\ Head(bg.queue) = language THEN 1 ELSE 0)
    + (IF pc = "px_build" /\ lang = language THEN 1 ELSE 0)

\* the loop of _build_base_images moves to the next language
bg_next == IF Len(bg.queue) > 1
           THEN [queue |-> Tail(bg.queue), state |-> "want"]
           ELSE BgIdle

\* SandboxImageManager.initialize
initialize ==
    /\ pc \in YieldPcs
    /\ bg.state = "idle"
    /\ ~ im_client
    /\ \E outcome \in {"ping_failed", "ok"} :
        /\ im_client' = TRUE
        /\ bg' = IF outcome = "ok"
                 THEN [queue |-> <<"python", "python-enhanced">>, state |-> "want"]
                 ELSE bg
    /\ UNCHANGED <<client, built_images, build_status, building_lock,
                   clvars, exvars,
                   report>>

\* SandboxImageManager.rebuild_all_images up to its first await
rebuild_all_images ==
    /\ pc \in YieldPcs
    /\ bg.state = "idle"
    /\ built_images' = {}
    /\ bg' = [queue |-> <<"python", "python-enhanced">>, state |-> "want"]
    /\ UNCHANGED <<client, im_client, build_status, building_lock,
                   clvars, exvars,
                   report>>

\* _build_base_images: one language, from taking the lock
BgBuildStart ==
    /\ pc \in YieldPcs
    /\ bg.state = "want"
    /\ building_lock = "free"
    /\ \E io_ok \in BOOLEAN :
        LET b == build_language_image(Head(bg.queue), "bg", io_ok) IN
        /\ build_status' = b.status
        /\ built_images' = b.images
        /\ building_lock' = b.lock
        /\ bg' = IF b.next = "await_build" THEN [bg EXCEPT !.state = "building"]
                 ELSE bg_next
    /\ UNCHANGED <<client, im_client, clvars, exvars,
                   report>>

\* _build_base_images: the awaited build of one language ends
BgBuildDone ==
    /\ pc \in YieldPcs
    /\ bg.state = "building"
    /\ \E ok \in BOOLEAN :
        LET b == build_language_image_done(Head(bg.queue), ok) IN
        /\ build_status' = b.status
        /\ built_images' = b.images
        /\ building_lock' = b.lock
    /\ bg' = bg_next
    /\ UNCHANGED <<client, im_client, clvars, exvars,
                   report>>

\* set(self.built_images.values())
current_tags_of(images) == {image_tag_of(language) : language \in images}

\* the orders in which the runtime may list the images of set S
Orders(S) ==
    {f \in [1..Cardinality(S) -> S] : \A i, j \in DOMAIN f : i # j => f[i] # f[j]}

\* variant: the loop ends at the first removal that fails
RECURSIVE remove_old_images_stop_at_failure(_, _, _)
remove_old_images_stop_at_failure(images, current_tags, failing) ==
    IF images = <<>>
    THEN [removed |-> {}, failed |-> {}]
    ELSE LET image == Head(images) IN
         IF image.tags \cap current_tags # {}
         THEN remove_old_images_stop_at_failure(Tail(images), current_tags, failing)
         ELSE IF image.id \in failing
         THEN [removed |-> {}, failed |-> {image.id}]
         ELSE LET rest == remove_old_images_stop_at_failure(Tail(images),
                                                           current_tags, failing)
              IN  [rest EXCEPT !.removed = @ \cup {image.id}]

\* the loop "for image in images" of cleanup_old_images: an image none of
\* whose tags is current is removed; failing holds the ids for which
\* client.images.remove raises, which is logged and the loop goes on
RECURSIVE remove_old_images(_, _, _)
remove_old_images(images, current_tags, failing) ==
    IF images = <<>>
    THEN [removed |-> {}, failed |-> {}]
    ELSE LET image == Head(images)
             rest == remove_old_images(Tail(images), current_tags, failing)
         IN  IF image.tags \cap current_tags # {}
             THEN rest
             ELSE IF image.id \in failing
             THEN [rest EXCEPT !.failed = @ \cup {image.id}]
             ELSE [rest EXCEPT !.removed = @ \cup {image.id}]

\* SandboxImageManager.cleanup_old_images(force); it awaits nothing, so it
\* runs in one step.  client.images.list raises (first disjunct) or returns
\* the labelled images in some order.
cleanup_old_images ==
    /\ pc \in YieldPcs
    /\ \E force \in BOOLEAN :
        LET none(outcome) == [force |-> force, outcome |-> outcome,
                              removed |-> {}, failed |-> {}, raised |-> FALSE]
        IN
        IF ~ force /\ now - last_cleanup < CleanupInterval
        THEN /\ cleanup_call' = none("not_due")
             /\ UNCHANGED <<labelled, last_cleanup>>
        ELSE IF ~ im_client
        THEN /\ cleanup_call' = none("no_client")
             /\ UNCHANGED <<labelled, last_cleanup>>
        ELSE \/ /\ cleanup_call' = none("list_failed")
                /\ UNCHANGED <<labelled, last_cleanup>>
             \/ \E images \in Orders(labelled),
                   failing \in SUBSET {i.id : i \in labelled} :
                    LET r == remove_old_images(images,
                                 current_tags_of(built_images), failing) IN
                    /\ labelled' = {i \in labelled : i.id \notin r.removed}
                    /\ last_cleanup' = now
                    /\ cleanup_call' = [force |-> force, outcome |-> "completed",
                                        removed |-> r.removed, failed |-> r.failed,
                                        raised |-> FALSE]
    /\ UNCHANGED <<client, im_client, built_images, build_status,
                   building_lock, bg, now, exvars,
                   report>>

\* time passes: datetime.now() grows by one tick
Tick ==
    /\ now < MaxClock
    /\ now' = now + 1
    /\ UNCHANGED <<client, im_client, built_images, build_status,
                   building_lock, bg, labelled, last_cleanup, cleanup_call,
                   exvars,
                   report>>

----------------------------------------------------------------------------
(* Dispatcher *)

Failure(error) == ExecutionResult(FALSE, <<>>, error, TimeDefault, 0)

\* variant: the test looks at the client only
dispatch_client_only(cl, images) ==
    IF cl THEN "primary" ELSE "fallback"

\* the test of execute_code_safely that selects the executor
dispatch(cl, images) ==
    IF cl /\ images # {} THEN "primary" ELSE "fallback"

\* sandbox_config = config or SandboxConfig()
config_or_default(cfg) == IF cfg = NoConfig THEN SandboxConfig ELSE cfg

\* self.config of the executor the dispatcher uses: the module's global
\* SecureSandbox() keeps the default, FallbackSandbox(sandbox_config) is
\* made for the call
executor_config(choice, cfg) ==
    IF choice = "primary" THEN SandboxConfig ELSE config_or_default(cfg)

\* what the dispatcher does with the result its primary executor returned:
\* "return await sandbox.execute_code(...)"
after_primary(r) == "return"

\* execute_code_safely(code, files, stdin_data, config) up to the executor
execute_code_safely ==
    /\ pc = "idle"
    /\ \E code \in Codes, files \in FileMaps, stdin_data \in StdinTexts,
          cfg \in {NoConfig, CallerConfig} :
        /\ req' = [code |-> code, files |-> files, stdin_data |-> stdin_data,
                   config |-> cfg]
        /\ backend' = dispatch(client, built_images)
        /\ config' = executor_config(dispatch(client, built_images), cfg)
    /\ at_call' = [client |-> client, images_ready |-> built_images # {}]
    /\ pc' = IF dispatch(client, built_images) = "primary"
             THEN "px_enter" ELSE "fx_mkdtemp"
    /\ UNCHANGED <<client, imvars, ws_exists, ws, lang, attempt, polls,
                   image_tag, container, child, launched, result, returned,
                   raised, cleanup_warning,
                   remove_failed,
                   report>>

\* the call is over; the next one may come in
Reset ==
    /\ pc = "done"
    /\ pc' = "idle"
    /\ req' = NoRequest
    /\ backend' = "none"
    /\ config' = SandboxConfig
    /\ ws_exists' = FALSE
    /\ ws' = {}
    /\ lang' = "python"
    /\ attempt' = 0
    /\ polls' = 0
    /\ image_tag' = NoTag
    /\ container' = "none"
    /\ child' = "none"
    /\ launched' = [containers |-> 0, children |-> 0]
    /\ result' = NoResult
    /\ returned' = <<>>
    /\ raised' = FALSE
    /\ at_call' = NoSnapshot
    /\ cleanup_warning' = FALSE
    /\ remove_failed' = FALSE
    /\ UNCHANGED <<client, imvars,
                   report>>

----------------------------------------------------------------------------
(* Primary executor: SecureSandbox.execute_code *)

\* the finally clause of execute_code: shutil.rmtree(temp_dir) inside
\* try/except Exception; "return" when the clause completes, "raise" when an
\* exception leaves it
px_finally_outcome(rm_ok) == "return"

\* the checks before the try block; their early returns leave through
\* PxFinally, where no temp_dir is set and nothing is cleaned
PxEnter ==
    /\ pc = "px_enter"
    /\ IF ~ client
       THEN /\ result' = Failure(<<"Docker not available - falling back to subprocess sandbox">>)
            /\ pc' = "px_finally"
       ELSE IF built_images = {}
       THEN /\ result' = Failure(<<"Docker images not ready - falling back to subprocess sandbox">>)
            /\ pc' = "px_finally"
       ELSE /\ pc' = "px_mkdtemp"
            /\ UNCHANGED result
    /\ UNCHANGED <<client, imvars, req, backend, config, ws_exists, ws, lang,
                   attempt, polls, image_tag, container, child, launched,
                   returned, raised, at_call, cleanup_warning,
                   remove_failed,
                   report>>

\* tempfile.mkdtemp(prefix="sandbox_")
PxMkdtemp ==
    /\ pc = "px_mkdtemp"
    /\ \E ok \in BOOLEAN :
        IF ok
        THEN /\ ws_exists' = TRUE
             /\ pc' = "px_prepare"
             /\ UNCHANGED result
        ELSE /\ result' = Failure(<<"Execution failed: ", "mkdtemp">>)
             /\ pc' = "px_finally"
             /\ UNCHANGED ws_exists
    /\ UNCHANGED <<client, imvars, req, backend, config, ws, lang, attempt,
                   polls, image_tag, container, child, launched, returned,
                   raised, at_call, cleanup_warning,
                   remove_failed,
                   report>>

\* await self._prepare_sandbox_environment(...); io_ok: no write raised
PxPrepare ==
    /\ pc = "px_prepare"
    /\ \E io_ok \in BOOLEAN :
        LET p == prepare_sandbox_environment(req.files, req.stdin_data, config) IN
        IF ~ io_ok
        THEN /\ result' = Failure(<<"Execution failed: ", "OSError">>)
             /\ pc' = "px_finally"
             /\ UNCHANGED ws
        ELSE IF p.raised
        THEN /\ result' = Failure(<<"Execution failed: ", "File ", "too large">>)
             /\ ws' = p.ws
             /\ pc' = "px_finally"
        ELSE /\ ws' = p.ws
             /\ pc' = "px_select"
             /\ UNCHANGED result
    /\ UNCHANGED <<client, imvars, req, backend, config, ws_exists, lang,
                   attempt, polls, image_tag, container, child, launched,
                   returned, raised, at_call, cleanup_warning,
                   remove_failed,
                   report>>

\* _select_appropriate_image
select_appropriate_image(code) ==
    IF code.enhanced THEN "python-enhanced" ELSE "python"

\* _run_in_container up to the first get_image_for_language call
PxSelect ==
    /\ pc = "px_select"
    /\ IF ~ client
       THEN /\ result' = Failure(<<"Docker client not available">>)
            /\ pc' = "px_after_run"
            /\ UNCHANGED <<lang, attempt>>
       ELSE /\ lang' = select_appropriate_image(req.code)
            /\ attempt' = 1
            /\ pc' = "px_get_image"
            /\ UNCHANGED result
    /\ UNCHANGED <<client, imvars, req, backend, config, ws_exists, ws, polls,
                   image_tag, container, child, launched, returned, raised,
                   at_call, cleanup_warning,
                   remove_failed,
                   report>>

\* the call of _build_language_image by get_image_for_language, once the
\* lock is free
PxBuildStart ==
    \E io_ok \in BOOLEAN :
        LET b == build_language_image(lang, "ex", io_ok) IN
        /\ build_status' = b.status
        /\ built_images' = b.images
        /\ building_lock' = b.lock
        /\ IF b.next = "await_build"
           THEN /\ pc' = "px_build"
                /\ UNCHANGED image_tag
           ELSE /\ pc' = "px_got"
                /\ image_tag' = built_tag(b.images, lang)

\* image_manager.get_image_for_language(lang) up to its first suspension
PxGetImage ==
    /\ pc = "px_get_image"
    /\ IF lang \in built_images
       THEN /\ image_tag' = image_tag_of(lang)
            /\ pc' = "px_got"
            /\ UNCHANGED <<built_images, build_status, building_lock, polls>>
       ELSE IF build_status[lang]
       THEN /\ polls' = 0
            /\ pc' = "px_poll"
            /\ UNCHANGED <<built_images, build_status, building_lock, image_tag>>
       ELSE IF building_lock = "free"
       THEN /\ PxBuildStart
            /\ UNCHANGED polls
       ELSE /\ pc' = "px_lock_wait"
            /\ UNCHANGED <<built_images, build_status, building_lock, polls,
                           image_tag>>
    /\ UNCHANGED <<client, im_client, bg, clvars, req, backend,
                   config, ws_exists, ws, lang, attempt, container, child,
                   launched, result, returned, raised, at_call,
                   cleanup_warning,
                   remove_failed,
                   report>>

\* get_image_for_language: the building_lock it waited for is released
PxLockAcquired ==
    /\ pc = "px_lock_wait"
    /\ building_lock = "free"
    /\ PxBuildStart
    /\ UNCHANGED <<client, im_client, bg, clvars, req, backend,
                   config, ws_exists, ws, lang, attempt, polls, container,
                   child, launched, result, returned, raised, at_call,
                   cleanup_warning,
                   remove_failed,
                   report>>

\* get_image_for_language: the build it awaits inside _build_language_image ends
PxBuildDone ==
    /\ pc = "px_build"
    /\ \E ok \in BOOLEAN :
        LET b == build_language_image_done(lang, ok) IN
        /\ build_status' = b.status
        /\ built_images' = b.images
        /\ building_lock' = b.lock
        /\ image_tag' = built_tag(b.images, lang)
    /\ pc' = "px_got"
    /\ UNCHANGED <<client, im_client, bg, clvars, req, backend, config,
                   ws_exists, ws, lang, attempt, polls, container, child,
                   launched, result, returned, raised, at_call,
                   cleanup_warning,
                   remove_failed,
                   report>>

\* variant: the waiting loop gives up one sleep later
PxPoll_one_more ==
    /\ pc = "px_poll"
    /\ IF lang \in built_images
       THEN /\ image_tag' = image_tag_of(lang)
            /\ pc' = "px_got"
            /\ polls' = 0
       ELSE IF polls = PollLimit
       THEN /\ image_tag' = NoTag
            /\ pc' = "px_got"
            /\ polls' = 0
       ELSE /\ polls' = polls + 1
            /\ UNCHANGED <<pc, image_tag>>
    /\ UNCHANGED <<client, imvars, req, backend, config, ws_exists, ws, lang,
                   attempt, container, child, launched, result, returned,
                   raised, at_call, cleanup_warning,
                   remove_failed,
                   report>>

\* get_image_for_language: one "await asyncio.sleep(1)" of the waiting loop
PxPoll ==
    /\ pc = "px_poll"
    /\ IF lang \in built_images
       THEN /\ image_tag' = image_tag_of(lang)
            /\ pc' = "px_got"
            /\ polls' = 0
       ELSE IF polls + 1 = PollLimit
       THEN /\ image_tag' = NoTag
            /\ pc' = "px_got"
            /\ polls' = 0
       ELSE /\ polls' = polls + 1
            /\ UNCHANGED <<pc, image_tag>>
    /\ UNCHANGED <<client, imvars, req, backend, config, ws_exists, ws, lang,
                   attempt, container, child, launched, result, returned,
                   raised, at_call, cleanup_warning,
                   remove_failed,
                   report>>

\* _run_in_container after a get_image_for_language call returned
\* variant: the container is started although no image tag was obtained
PxGot_launch_without_tag ==
    /\ pc = "px_got"
    /\ IF image_tag = NoTag /\ attempt = 1
          /\ select_appropriate_image(req.code) = "python-enhanced"
       THEN /\ lang' = "python"
            /\ attempt' = 2
            /\ pc' = "px_get_image"
       ELSE /\ pc' = "px_launch"
            /\ lang' = "python"
            /\ attempt' = 0
    /\ UNCHANGED <<client, imvars, req, backend, config, ws_exists, ws, polls,
                   image_tag, container, child, launched, result, returned,
                   raised, at_call, cleanup_warning, remove_failed, report>>

PxGot ==
    /\ pc = "px_got"
    /\ IF image_tag = NoTag /\ attempt = 1
          /\ select_appropriate_image(req.code) = "python-enhanced"
       THEN /\ lang' = "python"
            /\ attempt' = 2
            /\ pc' = "px_get_image"
            /\ UNCHANGED result
       ELSE IF image_tag = NoTag
       THEN /\ result' = Failure(<<"No sandbox images available. Image manager not ready or Docker images not built yet.">>)
            /\ pc' = "px_after_run"
            /\ lang' = "python"
            /\ attempt' = 0
       ELSE /\ pc' = "px_launch"
            /\ lang' = "python"
            /\ attempt' = 0
            /\ UNCHANGED result
    /\ UNCHANGED <<client, imvars, req, backend, config, ws_exists, ws, polls,
                   image_tag, container, child, launched, returned, raised,
                   at_call, cleanup_warning,
                   remove_failed,
                   report>>

\* the awaited client.containers.run(image_tag, ...) returns or raises
PxLaunch ==
    /\ pc = "px_launch"
    /\ \E ok \in BOOLEAN :
        IF ok
        THEN /\ container' = "running"
             /\ launched' = [launched EXCEPT !.containers = @ + 1]
             /\ pc' = "px_wait"
             /\ UNCHANGED result
        ELSE /\ result' = Failure(<<"Container execution failed: ", "run">>)
             /\ pc' = "px_after_run"
             /\ UNCHANGED <<container, launched,
                   remove_failed>>
    /\ UNCHANGED <<client, imvars, req, backend, config, ws_exists, ws, lang,
                   attempt, polls, image_tag, child, returned, raised, at_call,
                   cleanup_warning, remove_failed,
                   report>>

\* container.remove(force=True) inside try/except: pass
container_after_remove(before, remove_ok) ==
    IF remove_ok THEN "removed" ELSE before

\* variant: no finally clause around the wait, the container is left behind
PxWaitExit_no_remove ==
    /\ pc = "px_wait"
    /\ wrap_code_with_security(req.code, config).finishes
    /\ \E logs_ok \in BOOLEAN :
        LET w == wrap_code_with_security(req.code, config) IN
        /\ result' = IF logs_ok
                     THEN parse_container_output(w.logs, w.exit_code, config)
                     ELSE Failure(<<"Container execution failed: ", "logs">>)
        /\ container' = "exited"
        /\ remove_failed' = FALSE
    /\ pc' = "px_after_run"
    /\ UNCHANGED <<client, imvars, req, backend, config, ws_exists, ws, lang,
                   attempt, polls, image_tag, child, launched, returned,
                   raised, at_call, cleanup_warning,
                   report>>

\* the container exits within the wait; logs are read and parsed
PxWaitExit ==
    /\ pc = "px_wait"
    /\ wrap_code_with_security(req.code, config).finishes
    /\ \E logs_ok, remove_ok \in BOOLEAN :
        LET w == wrap_code_with_security(req.code, config) IN
        /\ result' = IF logs_ok
                     THEN parse_container_output(w.logs, w.exit_code, config)
                     ELSE Failure(<<"Container execution failed: ", "logs">>)
        /\ container' = container_after_remove("exited", remove_ok)
        /\ remove_failed' = ~ remove_ok
    /\ pc' = "px_after_run"
    /\ UNCHANGED <<client, imvars, req, backend, config, ws_exists, ws, lang,
                   attempt, polls, image_tag, child, launched, returned,
                   raised, at_call, cleanup_warning,
                   report>>

\* container.wait(timeout=config.timeout + 5) raises the client's timeout
PxWaitClientTimeout ==
    /\ pc = "px_wait"
    /\ \E remove_ok \in BOOLEAN :
        /\ container' = container_after_remove("running", remove_ok)
        /\ remove_failed' = ~ remove_ok
    /\ result' = Failure(<<"Container execution failed: ", "wait">>)
    /\ pc' = "px_after_run"
    /\ UNCHANGED <<client, imvars, req, backend, config, ws_exists, ws, lang,
                   attempt, polls, image_tag, child, launched, returned,
                   raised, at_call, cleanup_warning,
                   report>>

\* variant: the timeout result is returned without the finally clause
PxWaitTimeout_no_finally ==
    /\ pc = "px_wait"
    /\ \E remove_ok \in BOOLEAN :
        /\ container' = container_after_remove("running", remove_ok)
        /\ remove_failed' = ~ remove_ok
    /\ result' = ExecutionResult(FALSE, <<>>,
                     <<"Container execution ", TIMED_OUT,
                       " (container startup/shutdown took too long)">>,
                     TimeConfigTimeout(config), 0)
    /\ returned' = Append(returned, result')
    /\ pc' = "done"
    /\ UNCHANGED <<client, imvars, req, backend, config, ws_exists, ws, lang,
                   attempt, polls, image_tag, child, launched,
                   raised, at_call, cleanup_warning,
                   report>>

\* asyncio.wait_for(..., timeout=config.timeout + 7) raises TimeoutError,
\* which _run_in_container re-raises and execute_code turns into a result
PxWaitTimeout ==
    /\ pc = "px_wait"
    /\ \E remove_ok \in BOOLEAN :
        /\ container' = container_after_remove("running", remove_ok)
        /\ remove_failed' = ~ remove_ok
    /\ result' = ExecutionResult(FALSE, <<>>,
                     <<"Container execution ", TIMED_OUT,
                       " (container startup/shutdown took too long)">>,
                     TimeConfigTimeout(config), 0)
    /\ pc' = "px_finally"
    /\ UNCHANGED <<client, imvars, req, backend, config, ws_exists, ws, lang,
                   attempt, polls, image_tag, child, launched, returned,
                   raised, at_call, cleanup_warning,
                   report>>

\* execute_code after _run_in_container returned a result
PxAfterRun ==
    /\ pc = "px_after_run"
    /\ result' = [result EXCEPT !.execution_time = TimeWallClock,
                                !.files_created = get_created_files(ws, config)]
    /\ pc' = "px_finally"
    /\ UNCHANGED <<client, imvars, req, backend, config, ws_exists, ws, lang,
                   attempt, polls, image_tag, container, child, launched,
                   returned, raised, at_call, cleanup_warning,
                   remove_failed,
                   report>>

\* the finally clause of execute_code, then the dispatcher's return
PxFinally ==
    /\ pc = "px_finally"
    /\ \E rm_ok \in BOOLEAN :
        /\ ws_exists' = (ws_exists /\ ~ rm_ok)
        /\ ws' = IF ws_exists /\ ~ rm_ok THEN ws ELSE {}
        /\ cleanup_warning' = (ws_exists /\ ~ rm_ok)
        /\ IF ~ ws_exists \/ px_finally_outcome(rm_ok) = "return"
           THEN IF after_primary(result) = "return"
                THEN /\ returned' = Append(returned, result)
                     /\ pc' = "done"
                     /\ UNCHANGED <<backend, config>>
                ELSE /\ backend' = "fallback"
                     /\ config' = executor_config("fallback", req.config)
                     /\ pc' = "fx_mkdtemp"
                     /\ UNCHANGED returned
           ELSE \* except Exception of execute_code_safely: use the fallback
                /\ backend' = "fallback"
                /\ config' = executor_config("fallback", req.config)
                /\ pc' = "fx_mkdtemp"
                /\ UNCHANGED returned
    /\ UNCHANGED <<client, imvars, req, lang, attempt, polls, image_tag,
                   container, child, launched, result, raised, at_call,
                   remove_failed,
                   report>>

----------------------------------------------------------------------------
(* Fallback executor: FallbackSandbox.execute_code *)

\* variant: shutil.rmtree(temp_dir) outside any try/except
fx_finally_outcome_unguarded(rm_ok) == IF rm_ok THEN "return" ELSE "raise"

\* the finally clause of FallbackSandbox.execute_code: shutil.rmtree(temp_dir)
\* inside try/except Exception; "return" when the clause completes, "raise"
\* when an exception leaves it
fx_finally_outcome(rm_ok) == "return"

\* tempfile.mkdtemp(prefix="fallback_sandbox_")
FxMkdtemp ==
    /\ pc = "fx_mkdtemp"
    /\ \E ok \in BOOLEAN :
        IF ok
        THEN /\ ws_exists' = TRUE
             /\ ws' = {}
             /\ pc' = "fx_prepare"
             /\ UNCHANGED result
        ELSE /\ result' = Failure(<<"Execution failed: ", "mkdtemp">>)
             /\ pc' = "fx_finally"
             /\ UNCHANGED <<ws_exists, ws>>
    /\ UNCHANGED <<client, imvars, req, backend, config, lang, attempt, polls,
                   image_tag, container, child, launched, returned, raised,
                   at_call, cleanup_warning,
                   remove_failed,
                   report>>

\* main.py, input.txt and the user files are written; io_ok: no write raised
FxPrepare ==
    /\ pc = "fx_prepare"
    /\ \E io_ok \in BOOLEAN :
        LET p == fx_prepare_workspace(req.files, req.stdin_data) IN
        IF ~ io_ok \/ p.raised
        THEN /\ result' = Failure(<<"Execution failed: ", "OSError">>)
             /\ pc' = "fx_finally"
             /\ UNCHANGED ws
        ELSE /\ ws' = p.ws
             /\ pc' = "fx_spawn"
             /\ UNCHANGED result
    /\ UNCHANGED <<client, imvars, req, backend, config, ws_exists, lang,
                   attempt, polls, image_tag, container, child, launched,
                   returned, raised, at_call, cleanup_warning,
                   remove_failed,
                   report>>

\* the awaited asyncio.create_subprocess_exec returns or raises
FxSpawn ==
    /\ pc = "fx_spawn"
    /\ \E ok \in BOOLEAN :
        IF ok
        THEN /\ child' = "running"
             /\ launched' = [launched EXCEPT !.children = @ + 1]
             /\ pc' = "fx_wait"
             /\ UNCHANGED result
        ELSE /\ result' = Failure(<<"Subprocess execution failed: ", "spawn">>)
             /\ pc' = "fx_after_run"
             /\ UNCHANGED <<child, launched>>
    /\ UNCHANGED <<client, imvars, req, backend, config, ws_exists, ws, lang,
                   attempt, polls, image_tag, container, returned, raised,
                   at_call, cleanup_warning,
                   remove_failed,
                   report>>

\* process.communicate() returns within config.timeout + 2
FxWaitExit ==
    /\ pc = "fx_wait"
    /\ wrap_code_for_subprocess(req.code, config).finishes
    /\ LET w == wrap_code_for_subprocess(req.code, config) IN
        result' = parse_subprocess_output(w.logs, <<>>, w.exit_code)
    /\ child' = "reaped"
    /\ pc' = "fx_after_run"
    /\ UNCHANGED <<client, imvars, req, backend, config, ws_exists, ws, lang,
                   attempt, polls, image_tag, container, launched, returned,
                   raised, at_call, cleanup_warning,
                   remove_failed,
                   report>>

\* asyncio.wait_for raises TimeoutError: process.kill(), await process.wait()
FxWaitTimeout ==
    /\ pc = "fx_wait"
    /\ result' = ExecutionResult(FALSE, <<>>,
                     <<"Execution ", TIMED_OUT, " after N seconds">>,
                     TimeConfigTimeout(config), 0)
    /\ child' = "reaped"
    /\ pc' = "fx_after_run"
    /\ UNCHANGED <<client, imvars, req, backend, config, ws_exists, ws, lang,
                   attempt, polls, image_tag, container, launched, returned,
                   raised, at_call, cleanup_warning,
                   remove_failed,
                   report>>

\* variant: the fallback measures the wall-clock time around the run, as the
\* primary does
FxAfterRun_wall_clock ==
    /\ pc = "fx_after_run"
    /\ result' = [result EXCEPT
                     !.execution_time = TimeWallClock,
                     !.files_created = fx_get_created_files(ws, config)]
    /\ pc' = "fx_finally"
    /\ UNCHANGED <<client, imvars, req, backend, config, ws_exists, ws, lang,
                   attempt, polls, image_tag, container, child, launched,
                   returned, raised, at_call, cleanup_warning,
                   remove_failed,
                   report>>

\* execute_code after _run_subprocess returned a result
FxAfterRun ==
    /\ pc = "fx_after_run"
    /\ result' = [result EXCEPT
                     !.files_created = fx_get_created_files(ws, config)]
    /\ pc' = "fx_finally"
    /\ UNCHANGED <<client, imvars, req, backend, config, ws_exists, ws, lang,
                   attempt, polls, image_tag, container, child, launched,
                   returned, raised, at_call, cleanup_warning,
                   remove_failed,
                   report>>

\* the finally clause of execute_code, then the dispatcher's return
FxFinally ==
    /\ pc = "fx_finally"
    /\ \E rm_ok \in BOOLEAN :
        /\ ws_exists' = (ws_exists /\ ~ rm_ok)
        /\ ws' = IF ws_exists /\ ~ rm_ok THEN ws ELSE {}
        /\ cleanup_warning' = (ws_exists /\ ~ rm_ok)
        /\ IF ~ ws_exists \/ fx_finally_outcome(rm_ok) = "return"
           THEN /\ returned' = Append(returned, result)
                /\ UNCHANGED raised
           ELSE /\ raised' = TRUE
                /\ UNCHANGED returned
    /\ pc' = "done"
    /\ UNCHANGED <<client, imvars, req, backend, config, lang, attempt, polls,
                   image_tag, container, child, launched, result, at_call,
                   remove_failed,
                   report>>

\* the step of execute_code a position belongs to: 1 the workspace is being
\* prepared, 2 the container or child is being launched, 3 it is waited on,
\* 4 its output was parsed (or the run failed), 5 the created files were
\* enumerated and the finally clause runs, 6 the call is over
phase(p) ==
    CASE p \in {"px_enter", "px_mkdtemp", "px_prepare", "fx_mkdtemp", "fx_prepare"} -> 1
      [] p \in {"px_select", "px_get_image", "px_poll", "px_lock_wait", "px_build",
                "px_got", "px_launch", "fx_spawn"} -> 2
      [] p \in {"px_wait", "fx_wait"} -> 3
      [] p \in {"px_after_run", "fx_after_run"} -> 4
      [] p \in {"px_finally", "fx_finally"} -> 5
      [] p = "done" -> 6
      [] OTHER -> 0

----------------------------------------------------------------------------
(* Specification of the execution service *)

Next ==
    \/ initialize
    \/ rebuild_all_images
    \/ BgBuildStart
    \/ BgBuildDone
    \/ execute_code_safely
    \/ Reset
    \/ PxEnter
    \/ PxMkdtemp
    \/ PxPrepare
    \/ PxSelect
    \/ PxGetImage
    \/ PxLockAcquired
    \/ PxBuildDone
    \/ PxPoll
    \/ PxGot
    \/ PxLaunch
    \/ PxWaitExit
    \/ PxWaitClientTimeout
    \/ PxWaitTimeout
    \/ PxAfterRun
    \/ PxFinally
    \/ FxMkdtemp
    \/ FxPrepare
    \/ FxSpawn
    \/ FxWaitExit
    \/ FxWaitTimeout
    \/ FxAfterRun
    \/ FxFinally

Spec == Init /\ [][Next]_vars

----------------------------------------------------------------------------
(* Specification of the reporting pipeline: the wrapped program runs,      *)
(* prints its report, and the executor's parser reads it.  The executor is *)
(* SecureSandbox(config) or FallbackSandbox(config); the user program      *)
(* ranges over all bounded texts.                                          *)

\* what user programs write to stdout, and to stderr, on an executor: the
\* sentinels are those of the executor's own protocol (the other protocol's
\* sentinels are ordinary words to it)
OutAlphabet(b) ==
    {"a", " ", NL, IF b = "primary" THEN SANDBOX_TIME ELSE FALLBACK_TIME}
ErrAlphabet(b) ==
    {"a", NL, IF b = "primary" THEN SANDBOX_STDOUT ELSE FALLBACK_STDOUT}

\* max_output_size of the configs of the pipeline
OutputCaps == {1, 2}

WrapCodes(b) ==
    {[out |-> o, err |-> e, end |-> "normal", msg |-> <<>>, enhanced |-> FALSE] :
        o \in TextsUpTo(OutAlphabet(b), MaxOut),
        e \in TextsUpTo(ErrAlphabet(b), MaxErr)}
    \cup
    {[out |-> <<>>, err |-> <<>>, end |-> e, msg |-> <<"a">>, enhanced |-> FALSE] :
        e \in {"raise", "alarm", "exit"}}
    \cup
    \* raise ValueError("a timed out")
    {[out |-> <<>>, err |-> <<>>, end |-> "raise", msg |-> <<"a ", TIMED_OUT>>,
      enhanced |-> FALSE]}
    \cup
    {[out |-> <<"a", NL>>, err |-> <<>>, end |-> "import", msg |-> <<m>>,
      enhanced |-> FALSE] : m \in BlockedModules \cup {AllowedModule}}

WrapConfigs ==
    {[timeout |-> 2, max_output_size |-> m, max_file_size |-> 1] : m \in OutputCaps}

InitWrap ==
    /\ client = TRUE
    /\ im_client = FALSE
    /\ built_images = {}
    /\ build_status = [l \in Languages |-> FALSE]
    /\ building_lock = "free"
    /\ bg = BgIdle
    /\ labelled = LabelledImages
    /\ now = 0
    /\ last_cleanup = 0
    /\ cleanup_call = NoCleanup
    /\ pc = "wrap"
    /\ backend \in {"primary", "fallback"}
    /\ \E code \in WrapCodes(backend) :
        req = [code |-> code, files |-> <<>>, stdin_data |-> <<>>,
               config |-> NoConfig]
    /\ config \in WrapConfigs
    /\ ws_exists = FALSE
    /\ ws = {}
    /\ lang = "python"
    /\ attempt = 0
    /\ polls = 0
    /\ image_tag = NoTag
    /\ container = "none"
    /\ child = "none"
    /\ launched = [containers |-> 0, children |-> 0]
    /\ result = NoResult
    /\ returned = <<>>
    /\ raised = FALSE
    /\ at_call = NoSnapshot
    /\ cleanup_warning = FALSE
    /\ remove_failed = FALSE
    /\ report = NoReport

\* the container runs main.py to its end and _parse_container_output reads
\* the log
RunInContainer ==
    /\ pc = "wrap"
    /\ backend = "primary"
    /\ LET w == wrap_code_with_security(req.code, config) IN
        result' = parse_container_output(w.logs, w.exit_code, config)
    /\ pc' = "parsed"
    /\ UNCHANGED <<client, imvars, req, backend, config, ws_exists, ws, lang,
                   attempt, polls, image_tag, container, child, launched,
                   returned, raised, at_call, cleanup_warning,
                   remove_failed,
                   report>>

\* the child runs main.py to its end and _parse_subprocess_output reads its
\* stdout
RunSubprocess ==
    /\ pc = "wrap"
    /\ backend = "fallback"
    /\ LET w == wrap_code_for_subprocess(req.code, config) IN
        result' = parse_subprocess_output(w.logs, <<>>, w.exit_code)
    /\ pc' = "parsed"
    /\ UNCHANGED <<client, imvars, req, backend, config, ws_exists, ws, lang,
                   attempt, polls, image_tag, container, child, launched,
                   returned, raised, at_call, cleanup_warning,
                   remove_failed,
                   report>>

NextWrap == RunInContainer \/ RunSubprocess

SpecWrap == InitWrap /\ [][NextWrap]_vars

----------------------------------------------------------------------------
(* Specification of the workspace preparation on its own: both executors   *)
(* fill a fresh workspace from files mappings that may use reserved names. *)

\* file names callers supply, the reserved ones included
PrepareFileNames == FileNames \cup {MAIN_PY, INPUT_TXT}

PrepareFileMaps ==
    {fs \in UNION {[1..k -> {[name |-> n, size |-> 1] : n \in PrepareFileNames}] :
                      k \in 0..MaxFiles} :
        \A i, j \in 1..Len(fs) : i # j => fs[i].name # fs[j].name}

InitPrepare ==
    /\ client = TRUE
    /\ im_client = FALSE
    /\ built_images = {}
    /\ build_status = [l \in Languages |-> FALSE]
    /\ building_lock = "free"
    /\ bg = BgIdle
    /\ labelled = LabelledImages
    /\ now = 0
    /\ last_cleanup = 0
    /\ cleanup_call = NoCleanup
    /\ backend \in {"primary", "fallback"}
    /\ pc = IF backend = "primary" THEN "px_prepare" ELSE "fx_prepare"
    /\ \E f \in PrepareFileMaps, s \in StdinTexts, c \in {NoConfig, CallerConfig} :
          /\ req = [NoRequest EXCEPT !.files = f, !.stdin_data = s, !.config = c]
          /\ config = IF c = NoConfig THEN SandboxConfig ELSE c
    /\ report = NoReport
    /\ ws_exists = TRUE
    /\ ws = {}
    /\ lang = "python"
    /\ attempt = 0
    /\ polls = 0
    /\ image_tag = NoTag
    /\ container = "none"
    /\ child = "none"
    /\ launched = [containers |-> 0, children |-> 0]
    /\ result = NoResult
    /\ returned = <<>>
    /\ raised = FALSE
    /\ at_call = NoSnapshot
    /\ cleanup_warning = FALSE
    /\ remove_failed = FALSE

NextPrepare == PxPrepare \/ FxPrepare

SpecPrepare == InitPrepare /\ [][NextPrepare]_vars

----------------------------------------------------------------------------
(* Specification of the parsers on their own: _parse_container_output and  *)
(* _parse_subprocess_output applied to every bounded log and exit code.    *)

\* the lines a log is made of, in an executor's protocol: its sentinels, a
\* time line with and without a number, a line of text, an empty line
ReportLines(b) ==
    IF b = "primary"
    THEN {<<SANDBOX_STDOUT>>, <<SANDBOX_STDERR>>, <<SANDBOX_TIME, "1">>,
          <<SANDBOX_TIME, "a">>, <<SANDBOX_SUCCESS>>, <<SANDBOX_ERROR>>,
          <<SANDBOX_TIMEOUT>>, <<"a">>, <<>>}
    ELSE {<<FALLBACK_STDOUT>>, <<FALLBACK_STDERR>>, <<FALLBACK_TIME, "1">>,
          <<FALLBACK_TIME, "a">>, <<FALLBACK_SUCCESS>>, <<FALLBACK_ERROR>>,
          <<"a">>, <<>>}

\* result['StatusCode'] / process.returncode
ExitCodes == {0, 1}

Reports(b) ==
    {[lines |-> l, exit_code |-> x] :
        l \in UNION {[1..k -> ReportLines(b)] : k \in 0..MaxLines},
        x \in ExitCodes}

\* the text of a log: its lines joined by newlines
logs_of(lines) == join(lines, NL)

\* a text of the fallback protocol written with __SANDBOX_ sentinels
as_sandbox(text) ==
    [i \in 1..Len(text) |->
        CASE text[i] = FALLBACK_STDOUT -> SANDBOX_STDOUT
          [] text[i] = FALLBACK_STDERR -> SANDBOX_STDERR
          [] text[i] = FALLBACK_TIME -> SANDBOX_TIME
          [] text[i] = FALLBACK_SUCCESS -> SANDBOX_SUCCESS
          [] text[i] = FALLBACK_ERROR -> SANDBOX_ERROR
          [] OTHER -> text[i]]

InitParse ==
    /\ client = TRUE
    /\ im_client = FALSE
    /\ built_images = {}
    /\ build_status = [l \in Languages |-> FALSE]
    /\ building_lock = "free"
    /\ bg = BgIdle
    /\ labelled = LabelledImages
    /\ now = 0
    /\ last_cleanup = 0
    /\ cleanup_call = NoCleanup
    /\ pc = "report"
    /\ backend \in {"primary", "fallback"}
    /\ report \in Reports(backend)
    /\ req = NoRequest
    /\ config = SandboxConfig
    /\ ws_exists = FALSE
    /\ ws = {}
    /\ lang = "python"
    /\ attempt = 0
    /\ polls = 0
    /\ image_tag = NoTag
    /\ container = "none"
    /\ child = "none"
    /\ launched = [containers |-> 0, children |-> 0]
    /\ result = NoResult
    /\ returned = <<>>
    /\ raised = FALSE
    /\ at_call = NoSnapshot
    /\ cleanup_warning = FALSE
    /\ remove_failed = FALSE

\* self._parse_container_output(logs, result['StatusCode'])
ParseContainerOutput ==
    /\ pc = "report"
    /\ backend = "primary"
    /\ result' = parse_container_output(logs_of(report.lines), report.exit_code,
                                        config)
    /\ pc' = "parsed"
    /\ UNCHANGED <<client, imvars, req, backend, config, ws_exists, ws, lang,
                   attempt, polls, image_tag, container, child, launched,
                   returned, raised, at_call, cleanup_warning, remove_failed,
                   report>>

\* self._parse_subprocess_output(stdout, stderr, process.returncode) with an
\* empty stderr of the child
ParseSubprocessOutput ==
    /\ pc = "report"
    /\ backend = "fallback"
    /\ result' = parse_subprocess_output(logs_of(report.lines), <<>>,
                                         report.exit_code)
    /\ pc' = "parsed"
    /\ UNCHANGED <<client, imvars, req, backend, config, ws_exists, ws, lang,
                   attempt, polls, image_tag, container, child, launched,
                   returned, raised, at_call, cleanup_warning, remove_failed,
                   report>>

NextParse == ParseContainerOutput \/ ParseSubprocessOutput

SpecParse == InitParse /\ [][NextParse]_vars

----------------------------------------------------------------------------
(* Specification of the image manager on its own: the background builds,   *)
(* rebuild_all_images and cleanup_old_images as time passes, with no       *)
(* execution in flight.                                                    *)

NextImages ==
    \/ initialize
    \/ rebuild_all_images
    \/ BgBuildStart
    \/ BgBuildDone
    \/ cleanup_old_images
    \/ Tick

SpecImages == Init /\ [][NextImages]_vars

----------------------------------------------------------------------------
(* Properties *)

\* C1: every call of the dispatcher ends with exactly one ExecutionResult
\* handed to the caller and no exception leaving it, whatever failed on the
\* way: launching, the log read, the parse, the removal of the container or
\* of the workspace.  While the call runs nothing has been returned yet.
C1_OneResultNoException ==
    /\ ~ raised
    /\ pc = "done" => Len(returned) = 1
    /\ pc # "done" => returned = <<>>

\* a call that is over after its output could not be parsed and its
\* workspace could not be removed
C1_Witness ==
    /\ pc = "done"
    /\ Len(returned) = 1
    /\ returned[1].error = <<"Failed to parse output: ">>
    /\ ws_exists

\* C2: the call runs on the primary executor exactly when, as the call came
\* in, the shared client was available and built_images was non-empty, and
\* on the fallback otherwise; containers are launched by the primary only,
\* children by the fallback only, and no call launches both.
C2_ExecutorChoice ==
    /\ backend = "primary" => (at_call.client /\ at_call.images_ready)
    /\ backend = "fallback" => ~ (at_call.client /\ at_call.images_ready)
    /\ launched.containers > 0 => backend = "primary"
    /\ launched.children > 0 => backend = "fallback"
    /\ ~ (launched.containers > 0 /\ launched.children > 0)

\* a call on the primary that launched its container, failed, and is over
\* without a child process
C2_Witness ==
    /\ pc = "done"
    /\ backend = "primary"
    /\ launched = [containers |-> 1, children |-> 0]
    /\ Len(returned) = 1
    /\ ~ returned[1].success

\* C3: when the primary executor fails for lack of an image or for a
\* container runtime error, the dispatcher runs the call again on the
\* fallback, so the caller never receives one of those failures.
C3_RetriedOnFallback ==
    \A i \in 1..Len(returned) :
        returned[i].error # <<>> => returned[i].error[1] \notin
            {"No sandbox images available. Image manager not ready or Docker images not built yet.",
             "Container execution failed: "}

\* C4: the SandboxConfig the caller supplies (the default when there is
\* none) is the configuration of the executor that runs the call, primary
\* or fallback.
C4_CallerConfigApplied ==
    backend \in {"primary", "fallback"} => config = config_or_default(req.config)

\* C5: a call with a file whose name contains "..", is absolute or holds one
\* of < > : " | ? * launches nothing and returns a failure.
C5_UnsafeFilenameRejected ==
    LET unsafe(name) ==
            \/ \E i \in 1..(Len(name) - 1) : name[i] = "." /\ name[i + 1] = "."
            \/ (name # <<>> /\ name[1] = "/")
            \/ \E i \in 1..Len(name) : name[i] \in dangerous_chars
    IN  (\E i \in 1..Len(req.files) : unsafe(req.files[i].name)) =>
            /\ launched = [containers |-> 0, children |-> 0]
            /\ pc = "done" => \A j \in 1..Len(returned) : ~ returned[j].success

\* C6: a call with a file longer than the executor's max_file_size launches
\* nothing and returns a failure, on the primary and on the fallback alike:
\* the failure states that the file is too large, unless the workspace could
\* not be set up in the first place.
C6_OversizeFileRejected ==
    (/\ backend \in {"primary", "fallback"}
     /\ \E i \in 1..Len(req.files) : req.files[i].size > config.max_file_size)
    =>  /\ launched = [containers |-> 0, children |-> 0]
        /\ pc = "done" =>
              \A j \in 1..Len(returned) :
                  /\ ~ returned[j].success
                  /\ returned[j].error \in
                        {<<"Execution failed: ", "File ", "too large">>,
                         <<"Execution failed: ", "mkdtemp">>,
                         <<"Execution failed: ", "OSError">>}

C8_OutputBounded ==
    pc = "parsed" =>
        Len(result.output) <= config.max_output_size + Len(TruncationMarker)

\* C9: a program that ends normally after writing exactly max_output_size
\* characters to stdout (and nothing to stderr) gets them back with no
\* marker; one that writes more gets the first max_output_size characters
\* followed by the marker.
C9_TruncationBoundary ==
    (pc = "parsed" /\ req.code.end = "normal" /\ req.code.err = <<>>) =>
        LET out == req.code.out
            max_size == config.max_output_size
        IN  /\ Len(out) = max_size => result.output = out
            /\ Len(out) > max_size =>
                   result.output = Take(out, max_size) \o TruncationMarker

\* C10: a program that ends normally and writes no more than
\* max_output_size characters to stdout (and nothing to stderr) gets exactly
\* what it wrote as the output, trailing newline included, on both
\* executors.
C10_OutputTransparent ==
    (pc = "parsed" /\ req.code.end = "normal" /\ req.code.err = <<>>
                   /\ Len(req.code.out) <= config.max_output_size) =>
        result.output = req.code.out

\* C11: a program whose first statement imports a module of the denylist
\* gets a non-success result whose error mentions the import restriction
\* ("is blocked" or "restricted"), on the primary and on the fallback.
C11_BlockedImportReported ==
    (pc = "parsed" /\ req.code.end = "import"
                   /\ req.code.msg[1] \in BlockedModules) =>
        /\ ~ result.success
        /\ \E i \in 1..Len(result.error) :
               result.error[i] \in {IS_BLOCKED, IS_RESTRICTED}

\* C12: when the program was stopped by the wrapper's own timer and the
\* executor read its report (no failure of the runtime itself), the result
\* handed to the caller has success = false and execution_time equal to the
\* executor's config.timeout.
C12_DeadlineTimePinned ==
    (/\ pc = "done"
     /\ req.code.end = "alarm"
     /\ launched # [containers |-> 0, children |-> 0]
     /\ returned # <<>>
     /\ returned[1].error # <<>>
     /\ returned[1].error[1] \notin
            {"Container execution failed: ", "Subprocess execution failed: "})
    =>  /\ ~ returned[1].success
        /\ returned[1].execution_time = TimeConfigTimeout(config)

\* C13: on the primary, a program still running when the outer wait on its
\* container expires gets a timeout result: success = false and
\* execution_time equal to config.timeout.
C13_OuterWaitTimeoutResult ==
    (/\ pc = "done"
     /\ backend = "primary"
     /\ req.code.end = "hang"
     /\ launched.containers = 1
     /\ returned # <<>>)
    =>  /\ ~ returned[1].success
        /\ returned[1].execution_time = TimeConfigTimeout(config)

\* C14: on the fallback, no result is returned while the child is running,
\* and a program still running when the wait on the child expires has been
\* killed and reaped when its result is returned; that result has
\* success = false, an error containing "timed out" and execution_time
\* equal to config.timeout.
C14_ChildTimeoutResult ==
    /\ pc = "done" => child # "running"
    /\ (/\ pc = "done"
        /\ backend = "fallback"
        /\ req.code.end = "hang"
        /\ launched.children = 1)
       =>  /\ child = "reaped"
           /\ Len(returned) = 1
           /\ ~ returned[1].success
           /\ \E i \in 1..Len(returned[1].error) : returned[1].error[i] = TIMED_OUT
           /\ returned[1].execution_time = TimeConfigTimeout(config)

\* a call on the fallback whose program never ended is over
C14_Witness ==
    /\ pc = "done"
    /\ backend = "fallback"
    /\ req.code.end = "hang"
    /\ launched.children = 1
    /\ child = "reaped"
    /\ returned[1].execution_time = TimeConfigTimeout(config)

\* C15: when the program's run leaves a log with no sentinel line at all, or
\* with a time sentinel that is not a number, the result has success =
\* false, an error describing the parse failure and the first 1000
\* characters of the raw log as its output.
C15_UnparseableReported ==
    LET w == IF backend = "primary"
             THEN wrap_code_with_security(req.code, config)
             ELSE wrap_code_for_subprocess(req.code, config)
        lines == split(w.logs)
        sentinels == {SANDBOX_STDOUT, SANDBOX_STDERR, SANDBOX_TIME,
                      SANDBOX_SUCCESS, SANDBOX_ERROR, SANDBOX_TIMEOUT,
                      FALLBACK_STDOUT, FALLBACK_STDERR, FALLBACK_TIME,
                      FALLBACK_SUCCESS, FALLBACK_ERROR}
        time == IF backend = "primary" THEN SANDBOX_TIME ELSE FALLBACK_TIME
        no_sentinel ==
            \A i \in 1..Len(lines) :
                lines[i] = <<>> \/ lines[i][1] \notin sentinels
        malformed_time ==
            \E i \in 1..Len(lines) :
                /\ lines[i] # <<>>
                /\ lines[i][1] = time
                /\ ~ float_ok(remove_all(lines[i], time))
    IN  (pc = "parsed" /\ (no_sentinel \/ malformed_time)) =>
            /\ ~ result.success
            /\ result.error = <<"Failed to parse output: ">>
            /\ result.output = Take(w.logs, RawLogKeep)

\* C16: at most one image build per profile is in flight at any time,
\* however the builds of the background task (started by initialize or by
\* rebuild_all_images) and those of get_image_for_language interleave.
C16_OneBuildPerProfile ==
    \A language \in Languages : builds_in_flight(language) <= 1

\* get_image_for_language is building a profile while the background task
\* wants to build the same profile
C16_Witness ==
    /\ pc = "px_build"
    /\ bg.state = "want"
    /\ Head(bg.queue) = lang
    /\ builds_in_flight(lang) = 1
    /\ building_lock = "ex"

\* C17: a build of a profile starts only while the profile has no entry in
\* built_images (absent -> building -> built); so a request that waited for
\* the lock while the profile was being built does not build it again.
C17_NoBuildOfBuiltProfile ==
    [][\A language \in Languages :
          builds_in_flight(language)' > builds_in_flight(language)
              => language \notin built_images]_vars

\* C18: whenever a profile has an entry in built_images, the runtime has
\* successfully completed a build of the image the entry names, also when
\* the image manager has no runtime client and after a failed build.
\* The runtime builds an image only when the manager's client asks it to,
\* so an entry held while the manager has no client names an image that no
\* build produced.
C18_EntryImpliesBuilt ==
    \A language \in built_images : im_client

\* C19: a get_image_for_language call that finds the build of its profile
\* in flight starts no build of its own: it waits in the polling loop, each
\* poll that sees the profile in built_images returns the profile's tag, and
\* the poll after the 30th sleep returns not-ready, so the call never sleeps
\* more than 30 times.
C19_WaitsBoundedNoSecondBuild ==
    /\ [](pc = "px_poll" => polls < PollLimit)
    /\ [][/\ (pc = "px_get_image" /\ lang \notin built_images /\ build_status[lang])
              => (pc' = "px_poll" /\ UNCHANGED <<built_images, build_status, building_lock>>)
          /\ (pc = "px_poll" /\ pc' # "px_poll")
              => /\ pc' = "px_got"
                 /\ UNCHANGED <<built_images, build_status, building_lock>>
                 /\ image_tag' = IF lang \in built_images
                                 THEN image_tag_of(lang) ELSE NoTag
                 /\ lang \notin built_images => polls = PollLimit - 1
          /\ (pc = "px_poll" /\ lang \in built_images /\ polls' # polls)
              => pc' = "px_got"]_vars

\* the call slept 29 times for a build in flight and the profile has just
\* appeared in built_images
C19_Witness ==
    /\ pc = "px_poll"
    /\ polls = PollLimit - 1
    /\ lang \in built_images
    /\ lang = "python-enhanced"

\* C20: a cleanup_old_images call never removes an image one of whose tags
\* is a current value of built_images; when it gets to the removals, every
\* listed image without a current tag is either removed or its removal
\* failed (the loop goes on after a failure); it raises nothing and leaves
\* built_images and build_status as they were; and a call without force
\* made before cleanup_interval has passed since the last completed cleanup
\* (whose time last_cleanup holds) removes nothing and moves no timestamp.
C20_CleanupFrame ==
    /\ [](~ cleanup_call.raised)
    /\ [][<<labelled, last_cleanup, cleanup_call>>' # <<labelled, last_cleanup, cleanup_call>>
          => /\ UNCHANGED <<built_images, build_status>>
             /\ \A i \in labelled \ labelled' :
                    i.tags \cap current_tags_of(built_images) = {}
             /\ labelled' \subseteq labelled
             /\ cleanup_call'.outcome = "completed"
                    => \A i \in labelled :
                          i.tags \cap current_tags_of(built_images) = {}
                              => \/ i \notin labelled' /\ i.id \in cleanup_call'.removed
                                 \/ i \in labelled' /\ i.id \in cleanup_call'.failed
             /\ last_cleanup' # last_cleanup
                    => cleanup_call'.outcome = "completed" /\ last_cleanup' = now
             /\ cleanup_call'.outcome = "completed" => last_cleanup' = now
             /\ (~ cleanup_call'.force /\ now - last_cleanup < CleanupInterval)
                    => UNCHANGED <<labelled, last_cleanup>>]_vars

\* a cleanup got to the removals: it removed an image, another removal
\* failed, and an image with a current tag is still there
C20_Witness ==
    /\ cleanup_call.outcome = "completed"
    /\ cleanup_call.removed # {}
    /\ cleanup_call.failed # {}
    /\ \E i \in labelled : i.tags \cap current_tags_of(built_images) # {}

\* C21: no user program keeps running past the inner deadline: every
\* program that was launched ends on its own (at the deadline's TimeoutError
\* at the latest), so none is still running when the outer wait expires;
\* and no container or child is still running once the call is over.
C21_NoRunPastDeadlines ==
    /\ (pc = "px_wait" /\ container = "running")
           => wrap_code_with_security(req.code, config).finishes
    /\ (pc = "fx_wait" /\ child = "running")
           => wrap_code_for_subprocess(req.code, config).finishes
    /\ pc = "done" => (container # "running" /\ child # "running")

\* C22 as stated: within one execution the steps come in the strict order
\* workspace prepared, container or child launched, waited on, output
\* parsed, created files enumerated, workspace removed; and on the primary
\* the container is removed on every path after the launch, before the
\* workspace is removed.
C22_StrictOrderContainerRemoved ==
    /\ [](phase(pc) \in 2..4 => ws_exists)
    /\ [](phase(pc) \in 1..3 => result = NoResult)
    /\ [](phase(pc) \in 1..4 => result.files_created = {})
    /\ []((phase(pc) \in 4..6 /\ launched.containers > 0) => container = "removed")
    /\ [][phase(pc) \in 1..5 =>
            /\ phase(pc') >= phase(pc)
            /\ launched' # launched
                  => /\ phase(pc) = 2 /\ phase(pc') = 3
                     /\ ws_exists /\ \E f \in ws : f.name = MAIN_PY
            /\ (ws_exists /\ ~ ws_exists') => (phase(pc) = 5 /\ pc' = "done")]_vars

\* C22 amended: the same order; on the primary container.remove(force=True)
\* is called on every path after the launch, before the workspace is
\* removed, and the container is gone unless that call raised, which is
\* ignored.
C22_StrictOrderRemoveAttempted ==
    /\ [](phase(pc) \in 2..4 => ws_exists)
    /\ [](phase(pc) \in 1..3 => result = NoResult)
    /\ [](phase(pc) \in 1..4 => result.files_created = {})
    /\ []((phase(pc) \in 4..6 /\ launched.containers > 0)
             => (container = "removed" \/ remove_failed))
    /\ [](remove_failed => (phase(pc) \in 4..6 /\ container \in {"running", "exited"}))
    /\ [][phase(pc) \in 1..5 =>
            /\ phase(pc') >= phase(pc)
            /\ launched' # launched
                  => /\ phase(pc) = 2 /\ phase(pc') = 3
                     /\ ws_exists /\ \E f \in ws : f.name = MAIN_PY
            /\ (ws_exists /\ ~ ws_exists') => (phase(pc) = 5 /\ pc' = "done")]_vars

\* a call on the primary is over: its container ran, the removal of the
\* container failed, the created files were listed and the workspace is gone
C22_Witness ==
    /\ pc = "done"
    /\ launched.containers = 1
    /\ remove_failed
    /\ container = "exited"
    /\ returned[1].files_created # {}
    /\ ~ ws_exists

\* C23: the program the primary wrapper generates prints the line
\* __SANDBOX_TIMEOUT__ exactly when the deadline timer stopped the user
\* code: an exception the user code raises itself never produces it.
C23_TimeoutSentinelIffDeadline ==
    (pc = "parsed" /\ backend = "primary") =>
        LET lines == split(wrap_code_with_security(req.code, config).logs) IN
        (\E i \in 1..Len(lines) : lines[i] = <<SANDBOX_TIMEOUT>>)
            <=> req.code.end = "alarm"

\* C24 as stated: for every log and exit code the primary parser returns
\* success = true exactly when no __SANDBOX_TIMEOUT__ line occurs, the last
\* of the __SANDBOX_SUCCESS__ and __SANDBOX_ERROR__ lines is
\* __SANDBOX_SUCCESS__, and the exit code is 0.
C24_SuccessIffSentinels ==
    (pc = "parsed" /\ backend = "primary") =>
        LET lines == report.lines
            status == {i \in 1..Len(lines) :
                          lines[i] \in {<<SANDBOX_SUCCESS>>, <<SANDBOX_ERROR>>}}
            last_is_success ==
                \E i \in status : /\ lines[i] = <<SANDBOX_SUCCESS>>
                                   /\ \A j \in status : j <= i
            no_timeout == \A i \in 1..Len(lines) : lines[i] # <<SANDBOX_TIMEOUT>>
        IN  result.success <=> (no_timeout /\ last_is_success /\ report.exit_code = 0)

\* C24 amended: success = true exactly when, besides, no line that starts
\* with __SANDBOX_TIME__ lacks a number (such a line makes the parse fail,
\* with success = false); a timeout line forces success = false wherever
\* it stands relative to the success line.
C24_SuccessIffSentinelsParsed ==
    (pc = "parsed" /\ backend = "primary") =>
        LET lines == report.lines
            status == {i \in 1..Len(lines) :
                          lines[i] \in {<<SANDBOX_SUCCESS>>, <<SANDBOX_ERROR>>}}
            last_is_success ==
                \E i \in status : /\ lines[i] = <<SANDBOX_SUCCESS>>
                                   /\ \A j \in status : j <= i
            no_timeout == \A i \in 1..Len(lines) : lines[i] # <<SANDBOX_TIMEOUT>>
            times_ok == \A i \in 1..Len(lines) :
                           (lines[i] # <<>> /\ lines[i][1] = SANDBOX_TIME)
                               => float_ok(remove_all(lines[i], SANDBOX_TIME))
        IN  result.success <=>
                (times_ok /\ no_timeout /\ last_is_success /\ report.exit_code = 0)

\* a log whose timeout line comes before its success line was parsed
C24_Witness ==
    /\ pc = "parsed"
    /\ backend = "primary"
    /\ report.exit_code = 0
    /\ report.lines = <<<<SANDBOX_TIMEOUT>>, <<SANDBOX_TIME, "1">>, <<SANDBOX_SUCCESS>>>>
    /\ ~ result.success

\* C25: whatever the user code does (completes, raises, leaves the
\* interpreter, runs into the deadline), the wrapped program of the primary
\* executor writes the stdout section, the stderr section and a status
\* sentinel (__SANDBOX_SUCCESS__ or __SANDBOX_ERROR__) as its last line, and
\* exits with code 0.
C25_CompleteReportExitZero ==
    (pc = "parsed" /\ backend = "primary") =>
        LET w == wrap_code_with_security(req.code, config)
            lines == split(rstrip(w.logs))
        IN  /\ w.exit_code = 0
            /\ \E i \in 1..Len(lines) : lines[i] = <<SANDBOX_STDOUT>>
            /\ \E i \in 1..Len(lines) : lines[i] = <<SANDBOX_STDERR>>
            /\ lines[Len(lines)] \in {<<SANDBOX_SUCCESS>>, <<SANDBOX_ERROR>>}

\* C26: the image manager's mutex is never held while an image build is
\* running, and a request for one profile never waits for the mutex while
\* the build of another profile is in flight.
C26_LockNotHeldDuringBuild ==
    /\ building_lock # "free" => \A language \in Languages : builds_in_flight(language) = 0
    /\ pc = "px_lock_wait" =>
           \A language \in Languages \ {lang} : builds_in_flight(language) = 0

\* C27: the primary executor starts a container only with an image tag the
\* image manager returned; when the enhanced profile was selected and no tag
\* came back it asks once more, for the basic profile; when no tag is
\* obtained it returns a failure whose error names the missing images and
\* starts nothing.
C27_LaunchOnlyWithManagerTag ==
    /\ [](attempt \in 0..2)
    /\ []((pc \in {"px_after_run", "px_finally"}
            /\ result.error = <<"No sandbox images available. Image manager not ready or Docker images not built yet.">>)
           => (~ result.success /\ container = "none" /\ launched.containers = 0))
    /\ [][(launched.containers' > launched.containers =>
               (/\ pc = "px_launch"
                /\ \E language \in Languages : image_tag = image_tag_of(language)))
           /\ ((pc = "px_got" /\ pc' # pc /\ image_tag = NoTag) =>
                  IF attempt = 1 /\ select_appropriate_image(req.code) = "python-enhanced"
                  THEN pc' = "px_get_image" /\ lang' = "python" /\ attempt' = 2
                  ELSE /\ result' = Failure(<<"No sandbox images available. Image manager not ready or Docker images not built yet.">>)
                       /\ pc' = "px_after_run"
                       /\ UNCHANGED <<container, launched>>)
           /\ ((pc = "px_got" /\ pc' # pc /\ image_tag # NoTag) => pc' = "px_launch")]_vars

\* the enhanced profile gave no tag and the second request, for the basic
\* profile, did
C27_Witness ==
    /\ pc = "px_got"
    /\ attempt = 2
    /\ select_appropriate_image(req.code) = "python-enhanced"
    /\ image_tag = image_tag_of("python")
    /\ "python-enhanced" \notin built_images

\* C28: on both executors, whatever files pass the filename check, main.py
\* in the prepared workspace is the wrapped program generated from the
\* caller's code, and input.txt, when present, is the caller's stdin text.
C28_ProgramNotReplaced ==
    pc \in {"px_select", "fx_spawn"} =>
        /\ \E f \in ws : f.name = MAIN_PY /\ f.kind = "wrapped"
        /\ \A f \in ws : f.name = INPUT_TXT => f.kind = "stdin"

\* C29: files_created of the result names only files that came into being
\* during the execution: no file the caller supplied in the files mapping,
\* and neither main.py nor input.txt.
C29_FilesCreatedOnlyNew ==
    pc \in {"px_finally", "fx_finally", "done"} =>
        /\ MAIN_PY \notin result.files_created
        /\ INPUT_TXT \notin result.files_created
        /\ \A i \in 1..Len(req.files) : req.files[i].name \notin result.files_created

\* C30: for every report and exit code, with an empty stderr of the child,
\* the fallback parser's success, output and error are those the primary
\* parser returns for the same report written with __SANDBOX_ sentinels; the
\* error is the whole stderr section.
C30_ParsersAgree ==
    (pc = "parsed" /\ backend = "fallback") =>
        LET p == parse_container_output(as_sandbox(logs_of(report.lines)),
                                        report.exit_code, config)
        IN  /\ result.success = p.success
            /\ as_sandbox(result.output) = p.output
            /\ result.error = p.error

====
